---- MODULE Spec2Model ----
(***************************************************************************)
(* GraphFiltersPlugin (src/main.ts): a list of filter strings kept in      *)
(* step with the graph panel's native search box, a row of editable pills  *)
(* and the plugin's persisted settings.                                    *)
(*                                                                         *)
(* Strings are sequences of one-character strings, so that split, trim and *)
(* join are computed character by character as the JavaScript does.        *)
(* Every handler of the plugin runs to completion on the UI thread, so one *)
(* action is one whole event callback, nested synchronous dispatches       *)
(* included.                                                               *)
(***************************************************************************)
EXTENDS Integers, Sequences, FiniteSets, TLC

----------------------------------------------------------------------------
(* Bounds of the exploration *)

MaxFilters == 2      \* append is offered while the list is shorter than this
MaxListeners == 2    \* listeners registered on one element (one per activation)

----------------------------------------------------------------------------
(* String functions *)

sp3 == <<" ", " ", " ">>

\* the literal '   AND   ' of lines 91, 121 and 199
Delim == sp3 \o <<"A", "N", "D">> \o sp3

RECURSIVE TrimStart(_)
TrimStart(s) ==
    IF s = <<>> THEN s
    ELSE IF Head(s) = " " THEN TrimStart(Tail(s)) ELSE s

RECURSIVE TrimEnd(_)
TrimEnd(s) ==
    IF s = <<>> THEN s
    ELSE IF s[Len(s)] = " " THEN TrimEnd(SubSeq(s, 1, Len(s) - 1)) ELSE s

\* String.prototype.trim
Trim(s) == TrimEnd(TrimStart(s))

\* index of the leftmost occurrence of the delimiter in s, 0 when there is none
FirstDelim(s) ==
    LET hits == {i \in 1..(Len(s) - Len(Delim) + 1) :
                    SubSeq(s, i, i + Len(Delim) - 1) = Delim}
    IN IF hits = {} THEN 0 ELSE CHOOSE i \in hits : \A j \in hits : i <= j

\* String.prototype.split('   AND   '): leftmost, non-overlapping occurrences
RECURSIVE Split(_)
Split(s) ==
    LET i == FirstDelim(s)
    IN IF i = 0 THEN <<s>>
       ELSE <<SubSeq(s, 1, i - 1)>> \o Split(SubSeq(s, i + Len(Delim), Len(s)))

NonEmpty(f) == Len(f) > 0

\* a faulty variant of SplitTrimFilter: the empty pieces are kept
SplitTrimKeepEmpty(value) == [k \in 1..Len(Split(value)) |-> Trim(Split(value)[k])]

\* value.split('   AND   ').map(f => f.trim()).filter(f => f.length > 0)
SplitTrimFilter(value) ==
    SelectSeq([k \in 1..Len(Split(value)) |-> Trim(Split(value)[k])], NonEmpty)

\* a faulty variant of Join: the terms are joined with ' AND '
RECURSIVE JoinNarrow(_)
JoinNarrow(L) ==
    IF L = <<>> THEN <<>>
    ELSE IF Len(L) = 1 THEN L[1]
    ELSE L[1] \o <<" ", "A", "N", "D", " ">> \o JoinNarrow(Tail(L))

\* this.settings.filters.join('   AND   ')
RECURSIVE Join(_)
Join(L) ==
    IF L = <<>> THEN <<>>
    ELSE IF Len(L) = 1 THEN L[1]
    ELSE L[1] \o Delim \o Join(Tail(L))

\* a faulty variant of Splice: the last entry goes, whatever the index
SpliceLast(L, index) == IF L = <<>> THEN L ELSE SubSeq(L, 1, Len(L) - 1)

\* Array.prototype.splice(index, 1)
Splice(L, index) ==
    IF index >= 0 /\ index < Len(L)
    THEN SubSeq(L, 1, index) \o SubSeq(L, index + 2, Len(L))
    ELSE L

----------------------------------------------------------------------------
(* Inputs *)

\* what loadData can return as the stored filters (none stored: the default [])
StoredLists == { <<>>, << <<"a">> >> }

\* what a user types into the secondary input
SecondaryTexts ==
    { <<>>, sp3, <<" ", "b", " ">>, <<"a">> \o Delim \o <<"b">> }

\* what a user types into a pill
PillTexts == { <<>>, <<"b", " ">> }

\* what a user types into the native search box
NativeTexts ==
    { <<>>, <<"a">> \o Delim \o <<"b">> \o Delim, <<"a">> \o sp3 \o <<"A", "N", "D">> }

\* the query a freshly built panel shows
HostTexts == { <<>>, <<"a">> }

\* the keys of a keydown event on the secondary input
Keys == { "Enter", "a" }

----------------------------------------------------------------------------
(* State *)

VARIABLES
    filters,                \* this.settings.filters
    saved,                  \* the filters of the record last passed to saveData
    panelOpen,              \* the document holds the graph controls
    docText,                \* value of the document's native input not yet located
    searchInput,            \* this.searchInput: "null", "doc" (in the document), "stale" (detached)
    searchText,             \* this.searchInput.value
    inputListeners,         \* 'input' listeners the plugin added to this.searchInput
    filtersContainer,       \* this.filtersContainer: "undefined", "attached", "detached"
    pills,                  \* the pills in this.filtersContainer: [index, value as rendered]
    docPillsContainers,     \* pills containers of the plugin in the document
    existingSecondaryInput, \* this.existingSecondaryInput
    secondaryInput,         \* this.secondaryInput: "null", "attached", "detached"
    secondaryValue,         \* this.secondaryInput.value
    keyListeners,           \* 'keydown' listeners on this.secondaryInput
    docSecondaryInputs,     \* secondary inputs of the plugin in the document
    pending,                \* the debouncer: armed timer and the latest arguments
    trace,                  \* the last listener run of the plugin and its effects, in program order
    error,                  \* that run ended in a TypeError
    changeTimers,           \* 10ms timers of updateSearchQuery that have not run yet
    rtList,                 \* round trip: the list that is joined
    rtText,                 \* round trip: its join, as written to the native input
    rtBack,                 \* round trip: the list parsed back from rtText
    rtPc                    \* round trip: "idle", "join", "split", "done"

vars == << filters, saved, panelOpen, docText, searchInput, searchText,
           inputListeners, filtersContainer, pills, docPillsContainers,
           existingSecondaryInput, secondaryInput, secondaryValue, keyListeners,
           docSecondaryInputs, pending, trace, error, changeTimers,
           rtList, rtText, rtBack, rtPc >>

rtVars == << rtList, rtText, rtBack, rtPc >>

pluginVars == << filters, saved, panelOpen, docText, searchInput, searchText,
                 inputListeners, filtersContainer, pills, docPillsContainers,
                 existingSecondaryInput, secondaryInput, secondaryValue,
                 keyListeners, docSecondaryInputs, pending, trace, error >>

\* the current state as one record, so that a handler is a function on it
Cur ==
    [ filters |-> filters, saved |-> saved, panelOpen |-> panelOpen,
      docText |-> docText, searchInput |-> searchInput, searchText |-> searchText,
      inputListeners |-> inputListeners, filtersContainer |-> filtersContainer,
      pills |-> pills, docPillsContainers |-> docPillsContainers,
      existingSecondaryInput |-> existingSecondaryInput,
      secondaryInput |-> secondaryInput, secondaryValue |-> secondaryValue,
      keyListeners |-> keyListeners, docSecondaryInputs |-> docSecondaryInputs,
      pending |-> pending, trace |-> trace,
      error |-> error ]

CommitPlugin(s) ==
    /\ filters' = s.filters
    /\ saved' = s.saved
    /\ panelOpen' = s.panelOpen
    /\ docText' = s.docText
    /\ searchInput' = s.searchInput
    /\ searchText' = s.searchText
    /\ inputListeners' = s.inputListeners
    /\ filtersContainer' = s.filtersContainer
    /\ pills' = s.pills
    /\ docPillsContainers' = s.docPillsContainers
    /\ existingSecondaryInput' = s.existingSecondaryInput
    /\ secondaryInput' = s.secondaryInput
    /\ secondaryValue' = s.secondaryValue
    /\ keyListeners' = s.keyListeners
    /\ docSecondaryInputs' = s.docSecondaryInputs
    /\ pending' = s.pending
    /\ trace' = s.trace
    /\ error' = s.error
    /\ UNCHANGED rtVars

Count(tr, effect) == Cardinality({i \in DOMAIN tr : tr[i] = effect})

\* a callback ends; the 10ms timers it has set are not followed (the plugin
\* has no listener for the 'change' event their callbacks dispatch)
Commit(s) ==
    /\ CommitPlugin(s)
    /\ UNCHANGED changeTimers

\* a callback ends, and the 10ms timers it has set are pending
CommitTimed(s) ==
    /\ CommitPlugin(s)
    /\ changeTimers' = changeTimers + Count(s.trace, "setTimeout")

\* a handler starts: the log of effects is reset
Begin(name) == [Cur EXCEPT !.trace = <<name>>, !.error = FALSE]

Log(s, effect) == [s EXCEPT !.trace = Append(@, effect)]

\* the debouncer at rest; last is the text of the latest pill 'input' event
NoPending ==
    [armed |-> FALSE, index |-> 0, value |-> <<>>, coalesced |-> FALSE, last |-> <<>>]

----------------------------------------------------------------------------
(* Handlers, as functions on the state record *)

\* the forEach of renderPills: the pill of the entry at position index holds the
\* entry and captures index in its two listeners
PillsOf(L) == [k \in 1..Len(L) |-> [index |-> k - 1, value |-> L[k]]]

\* a faulty variant of saveSettings: nothing is written
saveSettingsDropped(s) == s

\* saveSettings: saveData(this.settings)
saveSettings(s) == Log([s EXCEPT !.saved = s.filters], "save")

\* a faulty variant of renderPills: the container is not emptied first
renderPillsNoEmpty(s) ==
    IF s.filtersContainer = "undefined"
    THEN IF s.filters = <<>> THEN s ELSE Log([s EXCEPT !.error = TRUE], "throw")
    ELSE Log([s EXCEPT !.pills = @ \o PillsOf(s.filters)], "render")

\* renderPills: filtersContainer?.empty(), then one pill per filter; createDiv on
\* an undefined container is a TypeError, raised by the first filter
renderPills(s) ==
    IF s.filtersContainer = "undefined"
    THEN IF s.filters = <<>> THEN s ELSE Log([s EXCEPT !.error = TRUE], "throw")
    ELSE Log([s EXCEPT !.pills = PillsOf(s.filters)], "render")

\* a faulty variant of handleSearchInputChange: the parsed list is adopted and saved
\* without the comparison
handleSearchInputChangeAlways(s) ==
    IF s.searchInput = "null" THEN s
    ELSE renderPills(saveSettings(
            Log([s EXCEPT !.filters = SplitTrimFilter(s.searchText)], "mutate")))

\* a faulty variant of handleSearchInputChange: the reconciled list is written back
\* to the native input
handleSearchInputChangeWriteBack(s) ==
    IF s.searchInput = "null" THEN s
    ELSE LET newFilters == SplitTrimFilter(s.searchText)
             s1 == IF newFilters # s.filters
                   THEN renderPills(saveSettings(
                           Log([s EXCEPT !.filters = newFilters], "mutate")))
                   ELSE s
         IN Log([s1 EXCEPT !.searchText = Join(s1.filters)], "setNative")

\* handleSearchInputChange
handleSearchInputChange(s) ==
    IF s.searchInput = "null" THEN s
    ELSE LET newFilters == SplitTrimFilter(s.searchText)
         IN IF newFilters # s.filters
            THEN renderPills(saveSettings(
                    Log([s EXCEPT !.filters = newFilters], "mutate")))
            ELSE s

\* searchInput.dispatchEvent(inputEvent): the listeners added by
\* initializeMainInput run one after the other, synchronously
RECURSIVE dispatchInput(_, _)
dispatchInput(s, n) ==
    IF n = 0 THEN s
    ELSE dispatchInput(handleSearchInputChange(Log(s, "listener")), n - 1)

\* a faulty variant of updateSearchQuery: no 'input' event is dispatched
updateSearchQuerySilent(s) ==
    IF s.searchInput = "null" THEN s
    ELSE Log(Log([s EXCEPT !.searchText = Join(s.filters)], "setNative"),
             "setTimeout")

\* updateSearchQuery: the value is written, 'input' is dispatched, and a 10ms
\* timer is set whose callback dispatches 'change', an event the plugin has no
\* listener for
updateSearchQuery(s) ==
    IF s.searchInput = "null" THEN s
    ELSE LET s1 == Log([s EXCEPT !.searchText = Join(s.filters)], "setNative")
             s2 == dispatchInput(s1, s1.inputListeners)
         IN Log(s2, "setTimeout")

\* a faulty variant of handleNewFilter: the value is pushed untrimmed and unchecked
handleNewFilterUnchecked(s) ==
    renderPills(updateSearchQuery(saveSettings(
        Log([Log([s EXCEPT !.filters = Append(@, s.secondaryValue)], "mutate")
                EXCEPT !.secondaryValue = <<>>], "clearInput"))))

\* a faulty variant of handleNewFilter: the field is not cleared
handleNewFilterKeepField(s) ==
    LET value == Trim(s.secondaryValue)
    IN IF value # <<>>
       THEN renderPills(updateSearchQuery(saveSettings(
                Log([s EXCEPT !.filters = Append(@, value)], "mutate"))))
       ELSE s

\* handleNewFilter(sourceInput), sourceInput being the secondary input
handleNewFilter(s) ==
    LET value == Trim(s.secondaryValue)
    IN IF value # <<>>
       THEN renderPills(updateSearchQuery(saveSettings(
                Log([Log([s EXCEPT !.filters = Append(@, value)], "mutate")
                        EXCEPT !.secondaryValue = <<>>], "clearInput"))))
       ELSE s

\* a faulty variant of removeFilter: the query is synced before the save
removeFilterSaveLast(s, index) ==
    renderPills(saveSettings(updateSearchQuery(
        Log([s EXCEPT !.filters = Splice(@, index)], "mutate"))))

\* removeFilter(index)
removeFilter(s, index) ==
    renderPills(updateSearchQuery(saveSettings(
        Log([s EXCEPT !.filters = Splice(@, index)], "mutate"))))

\* a faulty variant of debouncedCallback: the value is stored untrimmed
debouncedCallbackUntrimmed(s, index, value) ==
    IF index >= 0 /\ index < Len(s.filters)
    THEN updateSearchQuery(saveSettings(
            Log([s EXCEPT !.filters[index + 1] = value], "mutate")))
    ELSE s

\* the callback handed to debounce in initializeDebouncer
debouncedCallback(s, index, value) ==
    IF index >= 0 /\ index < Len(s.filters)
    THEN updateSearchQuery(saveSettings(
            Log([s EXCEPT !.filters[index + 1] = Trim(value)], "mutate")))
    ELSE s

\* a faulty variant of debouncedUpdate: a call inside the window is dropped, the first
\* arguments stay
debouncedUpdateKeepFirst(s, index, value) ==
    IF s.pending.armed
    THEN [s EXCEPT !.pending.coalesced = (s.pending.index = index)]
    ELSE [s EXCEPT !.pending.armed = TRUE, !.pending.index = index,
                   !.pending.value = value, !.pending.coalesced = FALSE]

\* a faulty variant of debouncedUpdate: leading edge, the first call of a window
\* runs the callback at once and later calls of the window only replace the
\* arguments
debouncedUpdateLeading(s, index, value) ==
    IF s.pending.armed
    THEN [s EXCEPT !.pending.index = index, !.pending.value = value,
                   !.pending.coalesced = (s.pending.index = index)]
    ELSE debouncedCallback(
            [s EXCEPT !.pending.armed = TRUE, !.pending.index = index,
                      !.pending.value = value, !.pending.coalesced = FALSE],
            index, value)

\* this.debouncedUpdate(index, value): debounce(cb, 300, true) keeps the latest
\* arguments and (re)starts the 300ms timer; coalesced records that the window
\* already held a call for the same index
debouncedUpdate(s, index, value) ==
    [s EXCEPT !.pending.armed = TRUE, !.pending.index = index,
              !.pending.value = value,
              !.pending.coalesced = (s.pending.armed /\ s.pending.index = index)]

\* a faulty variant of createPillsContainer: the isConnected guard is missing
createPillsContainerUnguarded(s) ==
    IF ~s.panelOpen THEN s
    ELSE [s EXCEPT !.filtersContainer = "attached", !.pills = <<>>,
                   !.docPillsContainers = @ + 1]

\* createPillsContainer
createPillsContainer(s) ==
    IF ~s.panelOpen \/ s.filtersContainer = "attached" THEN s
    ELSE [s EXCEPT !.filtersContainer = "attached", !.pills = <<>>,
                   !.docPillsContainers = @ + 1]

\* createSecondaryInput
createSecondaryInput(s) ==
    IF ~s.panelOpen \/ s.existingSecondaryInput THEN s
    ELSE [s EXCEPT !.secondaryInput = "attached", !.secondaryValue = <<>>,
                   !.keyListeners = 0, !.docSecondaryInputs = @ + 1,
                   !.existingSecondaryInput = TRUE]

\* registerInputHandler(input)
registerInputHandler(s) ==
    IF s.secondaryInput = "null" THEN s ELSE [s EXCEPT !.keyListeners = @ + 1]

\* registerSearchHandlers
registerSearchHandlers(s) == registerInputHandler(s)

\* initializeMainInput: querySelector finds the native input of the panel in the
\* document, or null; a listener is added to whatever element is found
initializeMainInput(s) ==
    IF ~s.panelOpen
    THEN [s EXCEPT !.searchInput = "null", !.searchText = <<>>, !.inputListeners = 0]
    ELSE IF s.searchInput = "doc"
    THEN [s EXCEPT !.inputListeners = @ + 1]
    ELSE [s EXCEPT !.searchInput = "doc", !.searchText = s.docText,
                   !.docText = <<>>, !.inputListeners = 1]

\* a faulty variant of initializeComponents: the native text is not parsed
initializeComponentsNoParse(s) ==
    renderPills(initializeMainInput(registerSearchHandlers(
        createSecondaryInput(createPillsContainer(s)))))

\* initializeComponents
initializeComponents(s) ==
    LET s4 == initializeMainInput(registerSearchHandlers(
                  createSecondaryInput(createPillsContainer(s))))
        newFilters == SplitTrimFilter(s4.searchText)
        s5 == IF s4.searchInput # "null" /\ newFilters # s4.filters
              THEN saveSettings(Log([s4 EXCEPT !.filters = newFilters], "mutate"))
              ELSE s4
    IN renderPills(s5)

\* the keydown listeners of the secondary input, one per registration
\* (registerInputHandler); commit is key === 'Enter' && ctrlKey && !isComposing
RECURSIVE dispatchKeydown(_, _, _)
dispatchKeydown(s, n, commit) ==
    IF n = 0 THEN s
    ELSE dispatchKeydown(IF commit
                         THEN handleNewFilter(Log(Log(s, "listener"), "preventDefault"))
                         ELSE Log(s, "listener"),
                         n - 1, commit)

----------------------------------------------------------------------------
(* Initial state: onload has run loadSettings and initializeDebouncer *)

\* loadSettings: { ...DEFAULT_SETTINGS, ...(await this.loadData()) }
loadSettings == StoredLists

PluginInit(stored) ==
    /\ filters \in stored
    /\ saved = filters
    /\ panelOpen = FALSE
    /\ docText = <<>>
    /\ searchInput = "null"
    /\ searchText = <<>>
    /\ inputListeners = 0
    /\ filtersContainer = "undefined"
    /\ pills = <<>>
    /\ docPillsContainers = 0
    /\ existingSecondaryInput = FALSE
    /\ secondaryInput = "null"
    /\ secondaryValue = <<>>
    /\ keyListeners = 0
    /\ docSecondaryInputs = 0
    /\ pending = NoPending
    /\ trace = <<"onload">>
    /\ error = FALSE
    /\ changeTimers = 0

Init ==
    /\ PluginInit(loadSettings)
    /\ rtList = <<>>
    /\ rtText = <<>>
    /\ rtBack = <<>>
    /\ rtPc = "idle"

----------------------------------------------------------------------------
(* Actions: one per event callback, and the host's changes of the document *)

\* the host builds the graph panel, its search box showing text
HostOpenPanel(text) ==
    /\ ~panelOpen
    /\ panelOpen' = TRUE
    /\ docText' = text
    /\ UNCHANGED << filters, saved, searchInput, searchText, inputListeners,
                    filtersContainer, pills, docPillsContainers,
                    existingSecondaryInput, secondaryInput, secondaryValue,
                    keyListeners, docSecondaryInputs, pending, trace, error,
                    changeTimers, rtVars >>

\* the host closes or rebuilds the panel: its subtree leaves the document
HostClosePanel ==
    /\ panelOpen
    /\ panelOpen' = FALSE
    /\ docText' = <<>>
    /\ searchInput' = IF searchInput = "doc" THEN "stale" ELSE searchInput
    /\ filtersContainer' = IF filtersContainer = "attached" THEN "detached"
                           ELSE filtersContainer
    /\ secondaryInput' = IF secondaryInput = "attached" THEN "detached"
                         ELSE secondaryInput
    /\ docPillsContainers' = 0
    /\ docSecondaryInputs' = 0
    /\ UNCHANGED << filters, saved, searchText, inputListeners, pills,
                    existingSecondaryInput, secondaryValue, keyListeners,
                    pending, trace, error, changeTimers, rtVars >>

\* 'active-leaf-change' with view type graph or bookmarks
Activate ==
    /\ inputListeners < MaxListeners
    /\ keyListeners < MaxListeners
    /\ Commit(initializeComponents(Begin("activate")))

\* the user types into the secondary input
SecondaryType(text) ==
    /\ secondaryInput = "attached"
    /\ text # secondaryValue
    /\ Commit([Cur EXCEPT !.secondaryValue = text])

\* keydown on the secondary input
SecondaryKeydown(key, ctrlKey, isComposing) ==
    /\ secondaryInput = "attached"
    /\ Len(filters) < MaxFilters
    /\ Commit(dispatchKeydown(Begin("keydown"), keyListeners,
                              key = "Enter" /\ ctrlKey /\ ~isComposing))

\* 'input' on the pill at position k, whose field now reads text (target.value)
PillInput(k, text) ==
    /\ filtersContainer = "attached"
    /\ k \in 1..Len(pills)
    /\ Commit(debouncedUpdate([Begin("pillInput") EXCEPT !.pending.last = text],
                              pills[k].index, text))

\* the debounce timer runs out
DebounceFire ==
    /\ pending.armed
    /\ Commit(debouncedCallback(
            [Begin(IF pending.coalesced THEN "debouncedBurst" ELSE "debounced")
                EXCEPT !.pending = NoPending],
            pending.index, pending.value))

\* click on the remove button of the pill at position k
PillRemove(k) ==
    /\ filtersContainer = "attached"
    /\ k \in 1..Len(pills)
    /\ Commit(removeFilter(Begin("remove"), pills[k].index))

\* the user edits the native search box: 'input' reaches the plugin's listeners
NativeInput(text) ==
    /\ searchInput = "doc"
    /\ text # searchText
    /\ Commit(dispatchInput([Begin("nativeInput") EXCEPT !.searchText = text],
                            inputListeners))

Next ==
    \/ \E text \in HostTexts : HostOpenPanel(text)
    \/ HostClosePanel
    \/ Activate
    \/ \E text \in SecondaryTexts : SecondaryType(text)
    \/ \E key \in Keys, ctrlKey \in BOOLEAN, isComposing \in BOOLEAN :
          SecondaryKeydown(key, ctrlKey, isComposing)
    \/ \E k \in DOMAIN pills, text \in PillTexts : PillInput(k, text)
    \/ DebounceFire
    \/ \E k \in DOMAIN pills : PillRemove(k)
    \/ \E text \in NativeTexts : NativeInput(text)

Spec == Init /\ [][Next]_vars

----------------------------------------------------------------------------
(* The join of updateSearchQuery followed by the parse of                   *)
(* handleSearchInputChange, on lists of trimmed non-empty strings           *)

MaxRTLen == 2        \* entries of a joined list
MaxRTTokens == 2     \* tokens an entry is built from

RTTokens == { <<"a">>, <<"A", "N", "D">>, sp3, Delim }

RECURSIVE RTConcat(_)
RTConcat(n) ==
    IF n = 0 THEN { <<>> }
    ELSE RTConcat(n - 1) \cup { s \o tok : s \in RTConcat(n - 1), tok \in RTTokens }

\* non-empty strings without leading or trailing whitespace
RTEntries == { Trim(s) : s \in RTConcat(MaxRTTokens) } \ { <<>> }

RTLists == UNION { [1..n -> RTEntries] : n \in 0..MaxRTLen }

RTInit ==
    /\ PluginInit({ <<>> })
    /\ rtList \in RTLists
    /\ rtText = <<>>
    /\ rtBack = <<>>
    /\ rtPc = "join"

\* const combinedQuery = this.settings.filters.join('   AND   ')
RTJoin ==
    /\ rtPc = "join"
    /\ rtText' = Join(rtList)
    /\ rtPc' = "split"
    /\ UNCHANGED << rtList, rtBack, pluginVars, changeTimers >>

\* currentValue.split('   AND   ').map(trim).filter(nonEmpty)
RTSplit ==
    /\ rtPc = "split"
    /\ rtBack' = SplitTrimFilter(rtText)
    /\ rtPc' = "done"
    /\ UNCHANGED << rtList, rtText, pluginVars, changeTimers >>

RTNext == RTJoin \/ RTSplit

SpecRoundTrip == RTInit /\ [][RTNext]_vars

----------------------------------------------------------------------------
(* The two-way binding with its timers: the handlers that call               *)
(* updateSearchQuery leave a 10ms timer behind, whose callback dispatches    *)
(* 'change' on the native input                                              *)

MaxTimers == 1       \* 10ms timers pending at once

\* what a user types, in this specification
BindSecondaryTexts == { <<" ", "b", " ">> }
BindPillTexts == { <<>>, <<"b", " ">> }
BindNativeTexts == { <<>>, <<"a">> \o Delim \o <<"b">> \o Delim }

\* keydown on the secondary input
TimedKeydown(key, ctrlKey, isComposing) ==
    /\ secondaryInput = "attached"
    /\ Len(filters) < MaxFilters
    /\ changeTimers < MaxTimers
    /\ CommitTimed(dispatchKeydown(Begin("keydown"), keyListeners,
                                   key = "Enter" /\ ctrlKey /\ ~isComposing))

\* the debounce timer runs out
TimedDebounceFire ==
    /\ pending.armed
    /\ changeTimers < MaxTimers
    /\ CommitTimed(debouncedCallback(
            [Begin(IF pending.coalesced THEN "debouncedBurst" ELSE "debounced")
                EXCEPT !.pending = NoPending],
            pending.index, pending.value))

\* click on the remove button of the pill at position k
TimedPillRemove(k) ==
    /\ filtersContainer = "attached"
    /\ k \in 1..Len(pills)
    /\ changeTimers < MaxTimers
    /\ CommitTimed(removeFilter(Begin("remove"), pills[k].index))

\* a 10ms timer runs out: this.searchInput?.dispatchEvent(new Event('change'))
ChangeTimerFire ==
    /\ changeTimers > 0
    /\ changeTimers' = changeTimers - 1
    /\ trace' = IF searchInput = "null" THEN <<"changeTimer">>
                ELSE <<"changeTimer", "change">>
    /\ error' = FALSE
    /\ UNCHANGED << filters, saved, panelOpen, docText, searchInput, searchText,
                    inputListeners, filtersContainer, pills, docPillsContainers,
                    existingSecondaryInput, secondaryInput, secondaryValue,
                    keyListeners, docSecondaryInputs, pending, rtVars >>

BindingNext ==
    \/ \E text \in HostTexts : HostOpenPanel(text)
    \/ HostClosePanel
    \/ Activate
    \/ \E text \in BindSecondaryTexts : SecondaryType(text)
    \/ \E key \in Keys, ctrlKey \in BOOLEAN, isComposing \in BOOLEAN :
          TimedKeydown(key, ctrlKey, isComposing)
    \/ \E k \in DOMAIN pills, text \in BindPillTexts : PillInput(k, text)
    \/ TimedDebounceFire
    \/ \E k \in DOMAIN pills : TimedPillRemove(k)
    \/ \E text \in BindNativeTexts : NativeInput(text)
    \/ ChangeTimerFire

\* a 10ms timer that is set runs out
SpecBinding ==
    /\ Init
    /\ [][BindingNext]_vars
    /\ WF_vars(ChangeTimerFire)

----------------------------------------------------------------------------
(* Properties *)

Has(tr, effect) == \E i \in DOMAIN tr : tr[i] = effect

ExampleText == <<"a">> \o Delim \o <<"b">> \o Delim

\* C1: in every state between two handlers in which this.searchInput is set,
\* the trimmed non-empty pieces of its text, split on the delimiter, are
\* exactly the filter list.
C1_NativeTextParsesToFilters ==
    searchInput # "null" => SplitTrimFilter(searchText) = filters

\* C1 witness: the user has typed a text with a trailing delimiter into the
\* located native input; the list is its two terms, and the text is not the
\* join of the list.
C1_Witness ==
    /\ searchInput = "doc"
    /\ trace[1] = "nativeInput"
    /\ searchText = ExampleText
    /\ filters = << <<"a">>, <<"b">> >>
    /\ searchText # Join(filters)

\* C2: a view activation alone never replaces the filter list or the
\* persisted record.
C2_ActivationKeepsFilters ==
    [][Activate => (filters' = filters /\ saved' = saved)]_vars

\* every assignment to the list is followed by a save before the native input
\* is written or the pills are rendered
SavedBeforeSync(tr) ==
    \A i \in DOMAIN tr :
        tr[i] = "mutate" =>
            \E j \in (i + 1)..Len(tr) :
                /\ tr[j] = "save"
                /\ \A k \in (i + 1)..(j - 1) : tr[k] \notin {"setNative", "render"}

\* C3: every handler that changes the filter list saves after the change and
\* before it writes the native input or renders the pills, and between two
\* handlers the saved filters are the filters in memory.
C3_SaveFollowsMutation ==
    /\ SavedBeforeSync(trace)
    /\ saved = filters

\* C3 witness: a remove has changed the list, saved it, written the native
\* input and rendered the pills.
C3_Witness ==
    /\ trace[1] = "remove"
    /\ Has(trace, "mutate") /\ Has(trace, "save")
    /\ Has(trace, "setNative") /\ Has(trace, "render")
    /\ filters # <<>>

\* C10: the document never holds more than one pills container of the plugin
\* nor more than one secondary input of the plugin.
C10_NoDuplicateElements ==
    /\ docPillsContainers <= 1
    /\ docSecondaryInputs <= 1

\* C10 witness: setup has run twice on one panel, and one container and one
\* secondary input are in the document.
C10_Witness ==
    /\ trace[1] = "activate"
    /\ inputListeners >= 2
    /\ keyListeners >= 2
    /\ docPillsContainers = 1
    /\ docSecondaryInputs = 1

ContainsDelim(s) == FirstDelim(s) # 0

\* s ends with '   AND', which the spaces of a following delimiter complete
EndsWithSpAnd(s) ==
    /\ Len(s) >= 6
    /\ SubSeq(s, Len(s) - 5, Len(s)) = sp3 \o <<"A", "N", "D">>

\* no entry holds the delimiter, and none but the last ends with '   AND'
Separable(L) ==
    \A k \in DOMAIN L :
        /\ ~ContainsDelim(L[k])
        /\ k < Len(L) => ~EndsWithSpAnd(L[k])

\* the commit keystroke on the secondary input
CommitKey == SecondaryKeydown("Enter", TRUE, FALSE)

\* C4 as claimed: append(t) with trim(t) non-empty and the native input located
\* leaves the list equal to the old list followed by trim(t), and the native
\* text equal to the join of the new list.
C4_AppendAddsOneEntry ==
    [][(trace'[1] = "keydown" /\ CommitKey
            /\ Trim(secondaryValue) # <<>> /\ searchInput # "null")
        => /\ filters' = Append(filters, Trim(secondaryValue))
           /\ searchText' = Join(filters')]_vars

\* C4 amended: append(t) with trim(t) non-empty and the native input located
\* leaves the native text equal to the join of the old list followed by
\* trim(t), and the list equal to the trimmed non-empty pieces of that text;
\* that is the old list followed by trim(t) whenever trim(t) holds no
\* delimiter and the old last entry does not end with '   AND'.
C4_AppendAmended ==
    [][(trace'[1] = "keydown" /\ CommitKey
            /\ Trim(secondaryValue) # <<>> /\ searchInput # "null")
        => LET appended == Append(filters, Trim(secondaryValue))
           IN /\ searchText' = Join(appended)
              /\ filters' = SplitTrimFilter(searchText')
              /\ saved' = filters'
              /\ Separable(appended) => filters' = appended
              /\ (filters = << <<"a">> >> /\ secondaryValue = <<" ", "b", " ">>)
                    => /\ filters' = << <<"a">>, <<"b">> >>
                       /\ searchText' = <<"a">> \o Delim \o <<"b">>]_vars

\* C4 witness: the commit keystroke has appended to the list ["a"]; the list
\* is ["a","b"] and the native input reads 'a   AND   b'.
C4_Witness ==
    /\ trace[1] = "keydown"
    /\ Has(trace, "mutate") /\ Has(trace, "setNative")
    /\ filters = << <<"a">>, <<"b">> >>
    /\ searchText = <<"a">> \o Delim \o <<"b">>
    /\ secondaryValue = <<>>

\* C5: a commit keystroke on a secondary input that is empty or holds only
\* whitespace changes neither the list, nor the saved record (no save is
\* issued), nor the native text, nor the pills.
C5_BlankAppendIsNoOp ==
    [][(trace'[1] = "keydown" /\ CommitKey /\ Trim(secondaryValue) = <<>>)
        => /\ filters' = filters
           /\ saved' = saved
           /\ ~Has(trace', "save")
           /\ searchText' = searchText
           /\ pills' = pills]_vars

\* C5 witness: the commit keystroke has reached the listener while the field
\* held three spaces, beside a non-empty list.
C5_Witness ==
    /\ trace[1] = "keydown"
    /\ Has(trace, "preventDefault")
    /\ secondaryValue = sp3
    /\ filters # <<>>
    /\ searchInput = "doc"

\* C6: a click on the remove button of the pill of entry i (0 <= i < length)
\* leaves the list without exactly that entry, the others in order, the native
\* text (when located) equal to the join of that list, and the pills rendered
\* from it.
C6_RemoveDeletesEntry ==
    [][\A k \in DOMAIN pills :
        (trace'[1] = "remove" /\ PillRemove(k))
        => /\ pills[k].index < Len(filters)
           /\ Len(filters') = Len(filters) - 1
           /\ \A j \in DOMAIN filters' :
                filters'[j] = IF j <= pills[k].index THEN filters[j] ELSE filters[j + 1]
           /\ saved' = filters'
           /\ searchInput # "null" => searchText' = Join(filters')
           /\ Has(trace', "render")
           /\ pills' = PillsOf(filters')
           /\ (filters = << <<"a">>, <<"b">> >> /\ pills[k].index = 0)
                 => (filters' = << <<"b">> >> /\ searchText' = <<"b">>)]_vars

\* C6 witness: the first of the two pills a, b has been removed; b is left.
C6_Witness ==
    /\ trace[1] = "remove"
    /\ Has(trace, "render")
    /\ filters = << <<"b">> >>
    /\ searchText = <<"b">>
    /\ pills = PillsOf(filters)

\* C7: when the user changes the located native input, the list becomes the
\* trimmed non-empty pieces of the new text; a save and a render of the pills
\* happen exactly when that list differs from the old one, and the text is
\* left as typed.
C7_ReconcileOnNativeChange ==
    [][\A text \in NativeTexts :
        (trace'[1] = "nativeInput" /\ searchText' = text /\ NativeInput(text))
        => /\ filters' = SplitTrimFilter(text)
           /\ text = ExampleText => filters' = << <<"a">>, <<"b">> >>
           /\ searchText' = text
           /\ ~Has(trace', "setNative")
           /\ Has(trace', "save") <=> filters' # filters
           /\ Has(trace', "render") <=> filters' # filters
           /\ filters' # filters => (saved' = filters' /\ pills' = PillsOf(filters'))
           /\ filters' = filters => (saved' = saved /\ pills' = pills)]_vars

\* C7 witness: a text with a trailing delimiter has been typed; the list is
\* its two terms, saved and rendered.
C7_Witness ==
    /\ trace[1] = "nativeInput"
    /\ Has(trace, "save") /\ Has(trace, "render")
    /\ searchText = ExampleText
    /\ Len(filters) = 2
    /\ pills = PillsOf(filters)

C8_RoundTrip == rtPc = "done" => rtBack = rtList

\* C8 amended: the round trip gives back every list of non-empty trimmed
\* strings none of which contains the delimiter and none of which, the last
\* apart, ends with '   AND'.
C8_RoundTripAmended == (rtPc = "done" /\ Separable(rtList)) => rtBack = rtList

\* C8 witness: a list of two entries, the second starting with 'AND   ', has
\* made the round trip.
C8_Witness ==
    /\ rtPc = "done"
    /\ Len(rtList) = 2
    /\ Separable(rtList)
    /\ rtList[2] = <<"A", "N", "D">> \o sp3 \o <<"a">>
    /\ rtText = rtList[1] \o Delim \o rtList[2]
    /\ rtBack = rtList

\* C11 as claimed: an activation that finds no graph controls in the document
\* ends without an error, adds no element to the document, and leaves the
\* filter list and the saved record as they were, whatever the list holds.
C11_MissingContainerIsNoOp ==
    [][(~panelOpen /\ trace'[1] = "activate" /\ Activate)
        => /\ ~error'
           /\ ~Has(trace', "throw")
           /\ filters' = filters
           /\ saved' = saved
           /\ docPillsContainers' = docPillsContainers
           /\ docSecondaryInputs' = docSecondaryInputs]_vars

\* C12 as claimed: when the debounce timer runs out with an index in range,
\* trim(text) is stored at that index, a save is issued, the native text is
\* recomputed, and the pills are not rendered again: the pills after the edit
\* are the pills before it, for every text.
C12_EditNeverRerenders ==
    [][(pending.armed /\ pending.index < Len(filters) /\ ~pending'.armed
            /\ DebounceFire)
        => /\ Has(trace', "save")
           /\ searchInput # "null" => Has(trace', "setNative")
           /\ ~Has(trace', "render")
           /\ pills' = pills]_vars

\* C13 as claimed: after every activation that finds the graph controls, the
\* plugin holds a pills container and a secondary input that are both in the
\* document, beside the native search box, and the secondary input has a
\* keydown listener; also when the elements of an earlier activation have left
\* the document with a closed or rebuilt panel.
C13_ActivationRestoresElements ==
    [][(panelOpen /\ trace'[1] = "activate" /\ Activate)
        => /\ filtersContainer' = "attached"
           /\ docPillsContainers' = 1
           /\ secondaryInput' = "attached"
           /\ docSecondaryInputs' = 1
           /\ keyListeners' >= 1]_vars

\* C14 as claimed: the debounce is leading-edge, the first pill edit of a
\* burst is stored in the list, saved and written to the native input inside
\* its own 'input' callback.
C14_LeadingEdge ==
    [][\A k \in DOMAIN pills, text \in PillTexts :
        (~pending.armed /\ trace'[1] = "pillInput" /\ PillInput(k, text))
        => /\ Has(trace', "mutate")
           /\ Has(trace', "save")
           /\ searchInput # "null" => Has(trace', "setNative")]_vars

\* C14 amended: the debounce is trailing-edge. A pill edit, the first of a
\* burst included, changes neither the list, nor the saved record, nor the
\* native text, nor the pills in its own callback: it only (re)starts the
\* timer and replaces the pending arguments by its own. When the timer runs
\* out the callback runs once with the latest arguments: with the index in
\* range it stores their trimmed text and saves, and the timer is at rest.
C14_TrailingEdge ==
    /\ [][\A k \in DOMAIN pills, text \in PillTexts :
            (trace'[1] = "pillInput" /\ pending'.value = text /\ PillInput(k, text))
            => /\ trace' = <<"pillInput">>
               /\ filters' = filters
               /\ saved' = saved
               /\ searchText' = searchText
               /\ pills' = pills
               /\ pending'.armed
               /\ pending'.index = pills[k].index
               /\ pending'.value = text]_vars
    /\ [][(pending.armed /\ ~pending'.armed /\ DebounceFire)
            => /\ pending' = NoPending
               /\ IF pending.index < Len(filters)
                  THEN /\ Count(trace', "setNative") <= 1
                       /\ Has(trace', "save")
                       /\ saved' = filters'
                       /\ trace'[2] = "mutate"
                       /\ (searchInput = "null"
                            \/ (/\ Trim(pending.value) # <<>>
                                /\ Separable([filters EXCEPT ![pending.index + 1] =
                                                  Trim(pending.value)])))
                          => filters' = [filters EXCEPT ![pending.index + 1] =
                                             Trim(pending.value)]
                  ELSE /\ trace' = <<trace'[1]>>
                       /\ filters' = filters
                       /\ saved' = saved]_vars

\* C14 witness: the user has typed 'b ' into the pill of 'a'; the timer is
\* armed with that text, and the list, the saved record and the native text
\* still hold 'a'.
C14_Witness ==
    /\ trace = <<"pillInput">>
    /\ pending.armed
    /\ ~pending.coalesced
    /\ pending.value = <<"b", " ">>
    /\ filters = << <<"a">> >>
    /\ saved = filters
    /\ searchInput = "doc"
    /\ searchText = <<"a">>

\* C15 as claimed: an edit to one pill never costs the pending edit of another
\* pill. When pill j is edited while the debouncer holds an edit (i, v), v not
\* blank, for another index i that is in range, then after that callback the
\* edit for i is either in the list (entry i is trim(v)) or still held by the
\* debouncer, so that both entries hold their typed values once the debounce
\* has settled.
C15_OtherIndexKeepsPendingEdit ==
    [][\A k \in DOMAIN pills, text \in PillTexts :
        (/\ pending.armed
         /\ pending.index # pills[k].index
         /\ pending.index < Len(filters)
         /\ Trim(pending.value) # <<>>
         /\ trace'[1] = "pillInput"
         /\ PillInput(k, text))
        => \/ filters'[pending.index + 1] = Trim(pending.value)
           \/ /\ pending'.armed
              /\ pending'.index = pending.index
              /\ pending'.value = pending.value]_vars

\* C16 as claimed: a pending pill edit never comes to designate another entry.
\* When a remove deletes the entry at or before the index captured by a
\* pending edit, the entries behind it shift down by one; after the remove the
\* pending update is cancelled, or its index is out of range (the update will
\* be dropped), or it has followed its own entry down; it does not stay armed
\* on the index into which a different entry has shifted.
C16_EditKeepsItsEntry ==
    [][\A k \in DOMAIN pills :
        (/\ pending.armed
         /\ pills[k].index <= pending.index
         /\ trace'[1] = "remove"
         /\ PillRemove(k)
         /\ filters' = Splice(filters, pills[k].index))
        => \/ ~pending'.armed
           \/ pending'.index >= Len(filters')
           \/ /\ pills[k].index < pending.index
              /\ pending'.index = pending.index - 1]_vars

IsCommit(key, ctrlKey, isComposing) == key = "Enter" /\ ctrlKey /\ ~isComposing

\* any keydown on the secondary input that is not the commit keystroke
OtherKey ==
    \E key \in Keys, ctrlKey \in BOOLEAN, isComposing \in BOOLEAN :
        /\ ~IsCommit(key, ctrlKey, isComposing)
        /\ SecondaryKeydown(key, ctrlKey, isComposing)

\* C17 as claimed: the commit keystroke on a non-blank field appends exactly
\* one entry, the trimmed content, and clears the field, however many keydown
\* listeners the activations have registered; any other keydown changes
\* neither the list, nor the field, nor the saved record.
C17_CommitAppendsOnce ==
    /\ [][(trace'[1] = "keydown" /\ CommitKey /\ Trim(secondaryValue) # <<>>)
            => /\ filters' = Append(filters, Trim(secondaryValue))
               /\ secondaryValue' = <<>>]_vars
    /\ [][(trace'[1] = "keydown" /\ OtherKey)
            => /\ filters' = filters
               /\ secondaryValue' = secondaryValue
               /\ saved' = saved]_vars

\* C17 amended: the commit keystroke on a non-blank field pushes the trimmed
\* content once, clears the field and writes the native input once, each of
\* the registered listeners having run; the list is then the parse of the
\* native text, which is the old list followed by the trimmed content when
\* that content holds no delimiter and the old last entry does not end with
\* '   AND'. The commit keystroke on a blank field, and any other keydown,
\* change neither the list, nor the field, nor the saved record.
C17_CommitAmended ==
    /\ [][(trace'[1] = "keydown" /\ CommitKey /\ Trim(secondaryValue) # <<>>)
            => LET appended == Append(filters, Trim(secondaryValue))
               IN /\ Count(trace', "listener") >= keyListeners
                  /\ Count(trace', "preventDefault") = keyListeners
                  /\ Count(trace', "clearInput") = 1
                  /\ Count(trace', "setNative") = 1
                  /\ secondaryValue' = <<>>
                  /\ searchText' = Join(appended)
                  /\ filters' = SplitTrimFilter(Join(appended))
                  /\ saved' = filters'
                  /\ Separable(appended)
                        => /\ filters' = appended
                           /\ Count(trace', "mutate") = 1
                           /\ Count(trace', "save") = 1]_vars
    /\ [][(trace'[1] = "keydown" /\ CommitKey /\ Trim(secondaryValue) = <<>>)
            => /\ filters' = filters
               /\ secondaryValue' = secondaryValue
               /\ saved' = saved
               /\ ~Has(trace', "mutate")]_vars
    /\ [][(trace'[1] = "keydown" /\ OtherKey)
            => /\ filters' = filters
               /\ secondaryValue' = secondaryValue
               /\ saved' = saved
               /\ searchText' = searchText
               /\ pills' = pills
               /\ ~Has(trace', "preventDefault")
               /\ ~Has(trace', "mutate")]_vars

\* C17 witness: after two activations of one panel the secondary input has two
\* keydown listeners; one commit keystroke on ' b ' has run both, and 'b' was
\* appended to ['a'] once.
C17_Witness ==
    /\ trace[1] = "keydown"
    /\ keyListeners = 2
    /\ Count(trace, "preventDefault") = 2
    /\ Count(trace, "mutate") = 1
    /\ Count(trace, "clearInput") = 1
    /\ filters = << <<"a">>, <<"b">> >>
    /\ secondaryValue = <<>>

\* the last render of the handler came after its last assignment to the list
RenderedLast(tr) ==
    \E i \in DOMAIN tr :
        /\ tr[i] = "render"
        /\ \A j \in (i + 1)..Len(tr) : tr[j] # "mutate"

\* C18: between two handlers, whenever the plugin holds a pills container, the
\* container holds one pill per entry of the list, in the order of the list,
\* the listeners of the k-th pill capturing index k (from 0); and when the
\* last handler rendered the pills after its last change of the list, the
\* text of the k-th pill is the k-th entry.
C18_OnePillPerEntry ==
    /\ filtersContainer # "undefined"
          => /\ Len(pills) = Len(filters)
             /\ \A k \in DOMAIN pills : pills[k].index = k - 1
    /\ RenderedLast(trace) => pills = PillsOf(filters)

\* C18 witness: an activation has rendered the pills of a list of two entries
\* into a container that already held pills.
C18_Witness ==
    /\ trace[1] = "activate"
    /\ Has(trace, "render")
    /\ filtersContainer = "attached"
    /\ inputListeners = 2
    /\ Len(filters) = 2
    /\ Len(pills) = 2
    /\ pills[2] = [index |-> 1, value |-> filters[2]]

\* C19 as claimed: the stored lists holding only trimmed non-empty strings,
\* between two handlers every entry of the filter list is a non-empty string
\* without leading or trailing whitespace.
C19_EntriesNonEmptyTrimmed ==
    \A k \in DOMAIN filters :
        /\ filters[k] # <<>>
        /\ Trim(filters[k]) = filters[k]

\* a callback of the plugin that a user or host event, or the debounce timer,
\* starts
BindingEvent ==
    \/ Activate
    \/ \E key \in Keys, ctrlKey \in BOOLEAN, isComposing \in BOOLEAN :
          TimedKeydown(key, ctrlKey, isComposing)
    \/ TimedDebounceFire
    \/ \E k \in DOMAIN pills : TimedPillRemove(k)
    \/ \E text \in BindNativeTexts : NativeInput(text)

\* no delayed 'change' event is outstanding
Quiescent == changeTimers = 0

\* runs of handleSearchInputChange between the write of the native input and
\* the setTimeout that ends updateSearchQuery
PassesOf(tr) ==
    LET w == CHOOSE i \in DOMAIN tr : tr[i] = "setNative"
        e == CHOOSE i \in DOMAIN tr : tr[i] = "setTimeout"
    IN Cardinality({i \in DOMAIN tr : tr[i] = "listener" /\ w < i /\ i < e})

\* one event: at most one write of the native input, followed by one
\* reconciliation pass per registered 'input' listener and one 10ms timer
OneWritePerEvent ==
    [][BindingEvent
        => LET w == Count(trace', "setNative")
           IN /\ w <= 1
              /\ Count(trace', "setTimeout") = w
              /\ changeTimers' = changeTimers + w
              /\ w = 1 => PassesOf(trace') = inputListeners]_vars

\* once no further event arrives, only the 10ms timers run, and the plugin
\* comes to rest for good
ComesToRest == <>[][ChangeTimerFire]_vars => <>[]Quiescent

\* C20 as claimed: every event writes the native input at most once, the
\* reconciliation passes that follow (one per registered listener) never write
\* it again, every write is followed by exactly one delayed 'change' event,
\* and the plugin then comes to rest.
C20_BindingNeverLoops ==
    /\ OneWritePerEvent
    /\ [][ChangeTimerFire
            => /\ Count(trace', "change") = 1
               /\ changeTimers' = changeTimers - 1
               /\ UNCHANGED << filters, saved, searchText, pills, pending >>]_vars
    /\ ComesToRest

\* C20 amended: as claimed, except that every write is followed by exactly
\* one run of the 10ms timer callback, which dispatches one 'change' event on
\* the native input the plugin holds at that moment and none when it holds
\* none.
C20_BindingAmended ==
    /\ OneWritePerEvent
    /\ [][ChangeTimerFire
            => /\ Count(trace', "change") = (IF searchInput = "null" THEN 0 ELSE 1)
               /\ ~Has(trace', "setNative")
               /\ changeTimers' = changeTimers - 1
               /\ UNCHANGED << filters, saved, searchText, pills, pending >>]_vars
    /\ ComesToRest

\* C20 witness: a remove on a panel activated twice has written the native
\* input once, both 'input' listeners have run, and one 10ms timer is pending.
C20_Witness ==
    /\ trace[1] = "remove"
    /\ inputListeners = 2
    /\ Count(trace, "setNative") = 1
    /\ PassesOf(trace) = 2
    /\ changeTimers = 1
    /\ searchText = Join(filters)

====
